---- MODULE Spec2Model ----
(***************************************************************************)
(* Exercise session lifecycle coordinator of the patient dashboard         *)
(* (PatientDashboard: handleStartExercise, handleCompleteExercise, the     *)
(* reconciliation effect, the two store subscriptions, the device panel    *)
(* and the recommendation fetcher) and the server's webhook forwarder.     *)
(* One assignment, E1, is on the patient's list.                           *)
(*                                                                         *)
(* Granularity: one action per synchronous run of a handler, i.e. from a   *)
(* call or the resolution of an awaited promise up to the next await.      *)
(* An awaited device or store call takes effect (or fails) in the step in  *)
(* which it returns.  A React effect whose dependencies changed runs as    *)
(* the very next step (effectPending), before any other message.           *)
(* The clock is observed only where the code reads Date.now(); `now` is    *)
(* the latest value read and each read returns that value or a later one.  *)
(* The patient is authenticated throughout (userProfile.uid is set).       *)
(***************************************************************************)
EXTENDS Integers, Sequences, FiniteSets, TLC

Exercises == {"E1"}

\* the exerciseId field of each assignment
ExerciseId == [e \in Exercises |-> "knee-ext"]
NULL == "null"
NoTime == -1

MaxTasks == 2
MaxProgress == 3
MaxSessions == 2
MaxTime == 1
MaxTimers == 2
MaxCompletions == 1
MaxRecs == 2
MaxFetches == 2
MaxDocs == 2
MaxForwards == 2

VARIABLES
  connected,            \* useArduinoConnection().connected
  isRecording,          \* useArduinoConnection().isRecording
  store,                \* remote assignedExercises documents
  progress,             \* remote exercise-progress documents, by id
  progressCount,        \* exercise-progress documents created so far
  assignedExercises,    \* local snapshot: id -> status
  sessionLoading,
  activeAssignmentId,
  activeProgressId,
  effectPending,        \* the reconciliation effect is due
  tasks,                \* in-flight start / stop sequences
  now,                  \* the latest value Date.now() returned
  fetchTimers,          \* pending setTimeout(fetchNetworkRecommendation)
  recommendations,
  fetches,              \* in-flight runs of fetchNetworkRecommendation
  ev,                   \* the message handled by the last step
  pending,              \* server: forwarder requests between arrival and reply
  reply                 \* server: the last HTTP reply the forwarder sent

vars == <<connected, isRecording, store, progress, progressCount,
          assignedExercises,
          sessionLoading, activeAssignmentId, activeProgressId,
          effectPending, tasks, now, fetchTimers, recommendations,
          fetches, ev, pending, reply>>

forwarderVars == <<pending, reply>>

clientVars == <<connected, isRecording, store, progress, progressCount,
                assignedExercises, sessionLoading, activeAssignmentId,
                activeProgressId, effectPending, tasks, now, fetchTimers,
                recommendations, fetches>>

\* what the session handlers, the device and the assignment subscription
\* read and write
sessionVars == <<connected, isRecording, store, progress, progressCount,
                 assignedExercises, sessionLoading, activeAssignmentId,
                 activeProgressId, effectPending, tasks, now>>

\* server: no reply sent yet
NoReply == [status |-> 0, body |-> [none |-> TRUE]]

TaskIds == 1..MaxTasks
Times == 0..MaxTime

Call(fn, id, status, at) == [fn |-> fn, id |-> id, status |-> status, at |-> at]

Event(kind, result, err, calls) ==
  [kind |-> kind, result |-> result, err |-> err, calls |-> calls]

\* no coordinator message was handled by the last step
NoEvent == Event("none", "none", NULL, <<>>)

\* a progress document the coordinator still holds the id of
Referenced(i) ==
  \/ activeProgressId = i
  \/ \E t \in DOMAIN tasks : tasks[t].kind = "stop" /\ tasks[t].pid = i

\* in-flight sequences are kept in order of their call
HasFree == Len(tasks) < MaxTasks
Remove(seq, t) == SubSeq(seq, 1, t - 1) \o SubSeq(seq, t + 1, Len(seq))

StartsInFlight == {t \in DOMAIN tasks : tasks[t].kind = "start"}
StopsInFlight == {t \in DOMAIN tasks : tasks[t].kind = "stop"}

(***************************************************************************)
(* Pure pieces of the handlers                                             *)
(***************************************************************************)

\* variant of the guards that tests the busy flag but not the slot
StartOutcomeIgnoringSlot(conn, loading, aid) ==
  IF ~conn THEN "device_not_connected"
  ELSE IF loading THEN "session_busy"
  ELSE "accepted"

\* handleStartExercise, the two guards before setSessionLoading(true)
StartOutcome(conn, loading, aid) ==
  IF ~conn THEN "device_not_connected"
  ELSE IF loading \/ aid # NULL THEN "session_busy"
  ELSE "accepted"

\* variant of the guard that lets every stop request through
StopOutcomeAlwaysAccepted(aid) == "accepted"

\* handleCompleteExercise, the guard `!activeAssignmentId`
StopOutcome(aid) == IF aid = NULL THEN "noop" ELSE "accepted"

\* the reconciliation effect's condition
ReconcileFires(aid, exs) ==
  /\ aid # NULL
  /\ aid \in DOMAIN exs
  /\ exs[aid] = "completed"

\* variant of the effect that stops the device whatever the condition
ReconcileCallsUnconditional(aid, exs) ==
  <<Call("stopRecording", NULL, NULL, NoTime)>>

\* the device and store calls the reconciliation effect issues
ReconcileCalls(aid, exs) ==
  IF ReconcileFires(aid, exs)
  THEN <<Call("stopRecording", NULL, NULL, NoTime)>>
  ELSE <<>>

\* variant of the effect that clears the assignment id only
ReconcileSlotKeepingProgress(aid, pid, exs) ==
  IF ReconcileFires(aid, exs) THEN <<NULL, pid>> ELSE <<aid, pid>>

\* the slot the reconciliation effect leaves
ReconcileSlot(aid, pid, exs) ==
  IF ReconcileFires(aid, exs) THEN <<NULL, 0>> ELSE <<aid, pid>>

\* isRecording after the synchronous device calls among `calls`
AfterCalls(rec, calls) ==
  IF \E i \in DOMAIN calls : calls[i].fn = "stopRecording" THEN FALSE ELSE rec

\* variant of the stop sequence that issues the assignment write first
StopCallsWriteFirst(aid, at) ==
  <<Call("updateAssignedExercise", aid, "completed", at),
    Call("stopRecording", NULL, NULL, NoTime)>>

\* handleCompleteExercise, up to its first await: stopRecording() and the
\* assignment write
StopCalls(aid, at) ==
  <<Call("stopRecording", NULL, NULL, NoTime),
    Call("updateAssignedExercise", aid, "completed", at)>>

\* handleStartExercise, catch block: stopRecording() and the revert write
CatchCalls(e, prev) ==
  <<Call("stopRecording", NULL, NULL, NoTime),
    Call("updateAssignedExercise", e, prev, NoTime)>>

\* variant of the finally block that leaves the busy flag set
CompleteFinallyStillLoading == [aid |-> NULL, pid |-> 0, loading |-> TRUE]

\* handleCompleteExercise, finally block: slot and busy flag
CompleteFinally == [aid |-> NULL, pid |-> 0, loading |-> FALSE]

\* handleStartExercise, finally block: busy flag
StartFinally == FALSE

\* updateAssignedExercise(uid, id, {status})
WriteStatus(st, e, status) ==
  [st EXCEPT ![e] = [status |-> status, completedAt |-> st[e].completedAt]]

\* updateAssignedExercise(uid, id, {status: "completed", completedAt})
WriteCompleted(st, e, at) ==
  [st EXCEPT ![e] = [status |-> "completed", completedAt |-> at]]

\* createExerciseProgress(uid, {assignedExerciseId, sessionStartTime, ...})
NewProgress(e, at) ==
  [assignedExerciseId |-> e, sessionStartTime |-> at, status |-> NULL,
   sessionEndTime |-> NoTime, completedAt |-> NoTime, updates |-> 0]

\* updateExerciseProgress(uid, id, {status, sessionEndTime, completedAt})
WriteProgress(pr, pid, at) ==
  [pr EXCEPT ![pid] = [@ EXCEPT !.status = "completed",
                                !.sessionEndTime = at,
                                !.completedAt = at,
                                !.updates = @ + 1]]

(***************************************************************************)
(* Recommendation fetcher                                                  *)
(***************************************************************************)

RecNames == {"squat", "lunge"}

\* an element of an upstream `recommendations` array
Recommendation(name) == [recommendedExercise |-> name]

\* the arrays an upstream body can carry
RECURSIVE ArraysOfLen(_)
ArraysOfLen(n) ==
  IF n = 0 THEN {<<>>}
  ELSE {Append(a, Recommendation(x)) : a \in ArraysOfLen(n - 1), x \in RecNames}

Arrays == UNION {ArraysOfLen(n) : n \in 0..MaxRecs}

\* What response.json() yields.  json: "invalid" (json() rejects), "null"
\* (the JSON value null) or "object"; recsField: the `recommendations`
\* property is absent, a non-array value, or an array (items);
\* recEx: the `recommendedExercise` property, absent, "" or a name.
Body(json, recsField, items, recEx) ==
  [json |-> json, recsField |-> recsField, items |-> items, recEx |-> recEx]

InvalidBody == Body("invalid", "absent", <<>>, "absent")

NullBody == Body("null", "absent", <<>>, "absent")

ObjectBodies ==
  {Body("object", k, <<>>, x) : k \in {"absent", "scalar"},
                                x \in {"absent", ""} \cup RecNames}
  \cup {Body("object", "array", a, x) : a \in Arrays,
                                        x \in {"absent", ""} \cup RecNames}

\* what response.json() can yield
Bodies == {InvalidBody, NullBody} \cup ObjectBodies

\* data?.recommendations && Array.isArray(data.recommendations)
HasRecommendationsArray(b) == b.json = "object" /\ b.recsField = "array"

\* data?.recommendedExercise is truthy
HasRecommendedExercise(b) == b.json = "object" /\ b.recEx \notin {"absent", ""}

\* variant of the fetcher that empties the list when json() rejects
FetchResultClearingOnError(resp, recs) ==
  IF ~resp.ok THEN recs
  ELSE IF resp.body.json = "invalid" THEN <<>>
  ELSE IF HasRecommendationsArray(resp.body) THEN resp.body.items
  ELSE IF HasRecommendedExercise(resp.body) THEN <<resp.body>>
  ELSE recs

\* variant of the fetcher that appends the array to the list
FetchResultAppending(resp, recs) ==
  IF ~resp.ok THEN recs
  ELSE IF resp.body.json = "invalid" THEN recs
  ELSE IF HasRecommendationsArray(resp.body) THEN recs \o resp.body.items
  ELSE IF HasRecommendedExercise(resp.body) THEN <<resp.body>>
  ELSE recs

\* fetchNetworkRecommendation: the recommendation list after one run
FetchResult(resp, recs) ==
  IF ~resp.ok THEN recs
  ELSE IF resp.body.json = "invalid" THEN recs
  ELSE IF HasRecommendationsArray(resp.body) THEN resp.body.items
  ELSE IF HasRecommendedExercise(resp.body) THEN <<resp.body>>
  ELSE recs

\* fetchNetworkRecommendation: the branch one run takes
FetchOutcome(resp) ==
  IF ~resp.ok THEN "not_ok"
  ELSE IF resp.body.json = "invalid" THEN "threw"
  ELSE IF HasRecommendationsArray(resp.body) THEN "replaced"
  ELSE IF HasRecommendedExercise(resp.body) THEN "single"
  ELSE "ignored"

\* a run of the fetcher that has ended, as a handled message: the response
\* it received, the branch it took; no error leaves the function (err)
FetchEvent(resp) ==
  [kind |-> "fetch", result |-> FetchOutcome(resp), err |-> NULL,
   calls |-> <<>>, resp |-> resp]

\* a run whose request was rejected: there is no response
FetchRejectedEvent ==
  [kind |-> "fetch", result |-> "rejected", err |-> NULL, calls |-> <<>>]

\* the last synchronous segment of a run that received `resp`
Fetch(resp) ==
  /\ recommendations' = FetchResult(resp, recommendations)
  /\ ev' = FetchEvent(resp)

\* a document of the n8nResponses collection: its `recommendations` field
Doc(recsField, items) == [recsField |-> recsField, items |-> items]

Docs ==
  {Doc(k, <<>>) : k \in {"absent", "scalar"}}
  \cup {Doc("array", a) : a \in Arrays}

\* the snapshots the n8nResponses subscription can deliver
RECURSIVE BatchesOfLen(_)
BatchesOfLen(n) ==
  IF n = 0 THEN {<<>>}
  ELSE {Append(b, d) : b \in BatchesOfLen(n - 1), d \in Docs}

Batches == UNION {BatchesOfLen(n) : n \in 0..MaxDocs}

\* n8nResponses callback: the arrays of all documents, concatenated in
\* document order; documents without an array are skipped
RECURSIVE SnapshotRecs(_)
SnapshotRecs(docs) ==
  IF docs = <<>> THEN <<>>
  ELSE (IF Head(docs).recsField = "array" THEN Head(docs).items ELSE <<>>)
       \o SnapshotRecs(Tail(docs))

\* the state after the first render: useState initial values, empty store result
Init ==
  /\ connected = FALSE
  /\ isRecording = FALSE
  /\ store = [e \in Exercises |-> [status |-> "assigned", completedAt |-> NoTime]]
  /\ progress = [i \in {} |-> 0]
  /\ progressCount = 0
  /\ assignedExercises = [e \in {} |-> "assigned"]
  /\ sessionLoading = FALSE
  /\ activeAssignmentId = NULL
  /\ activeProgressId = 0
  /\ effectPending = FALSE
  /\ tasks = <<>>
  /\ now = 0
  /\ fetchTimers = 0
  /\ recommendations = <<>>
  /\ fetches = <<>>
  /\ ev = NoEvent
  /\ pending = <<>>
  /\ reply = NoReply

(***************************************************************************)
(* Environment: device, clock, backend process, store subscription         *)
(***************************************************************************)

NoEffectDue == ~effectPending

Connect ==
  /\ NoEffectDue
  /\ UNCHANGED <<fetches, forwarderVars>> /\ ~connected
  /\ connected' = TRUE
  /\ UNCHANGED <<isRecording, store, progress, progressCount, assignedExercises,
                 sessionLoading, activeAssignmentId, activeProgressId,
                 effectPending, tasks, now, fetchTimers, recommendations>>
  /\ ev' = NoEvent

Disconnect ==
  /\ NoEffectDue
  /\ UNCHANGED <<fetches, forwarderVars>> /\ connected
  /\ connected' = FALSE
  /\ UNCHANGED <<isRecording, store, progress, progressCount, assignedExercises,
                 sessionLoading, activeAssignmentId, activeProgressId,
                 effectPending, tasks, now, fetchTimers, recommendations>>
  /\ ev' = NoEvent

\* the device panel's start button: startRecording() returns successfully
PanelStartRecording ==
  /\ NoEffectDue
  /\ ~isRecording
  /\ isRecording' = TRUE
  /\ ev' = NoEvent
  /\ UNCHANGED <<connected, store, progress, progressCount, assignedExercises,
                 sessionLoading, activeAssignmentId, activeProgressId,
                 effectPending, tasks, now, fetchTimers, recommendations,
                 fetches, forwarderVars>>

\* the device panel's stop button: stopRecording()
PanelStopRecording ==
  /\ NoEffectDue
  /\ isRecording
  /\ isRecording' = AfterCalls(isRecording,
                               <<Call("stopRecording", NULL, NULL, NoTime)>>)
  /\ ev' = NoEvent
  /\ UNCHANGED <<connected, store, progress, progressCount, assignedExercises,
                 sessionLoading, activeAssignmentId, activeProgressId,
                 effectPending, tasks, now, fetchTimers, recommendations,
                 fetches, forwarderVars>>

\* a backend process marks an assignment completed (status field only)
ExternalComplete(e) ==
  /\ NoEffectDue
  /\ UNCHANGED <<fetches, forwarderVars>> /\ store[e].status # "completed"
  /\ store' = WriteStatus(store, e, "completed")
  /\ UNCHANGED <<connected, isRecording, progress, progressCount, assignedExercises,
                 sessionLoading, activeAssignmentId, activeProgressId,
                 effectPending, tasks, now, fetchTimers, recommendations>>
  /\ ev' = NoEvent

\* variant of the subscription callback whose new list does not re-run the
\* reconciliation effect (assignedExercises left out of its dependencies)
SnapshotWithoutEffect ==
  /\ NoEffectDue
  /\ UNCHANGED <<fetches, forwarderVars>>
  /\ assignedExercises' = [e \in Exercises |-> store[e].status]
  /\ ev' = NoEvent
  /\ UNCHANGED <<connected, isRecording, store, progress, progressCount, sessionLoading,
                 activeAssignmentId, activeProgressId, effectPending, tasks, now,
                 fetchTimers, recommendations>>

\* onSnapshot callback of the assignedExercises subscription
Snapshot ==
  /\ NoEffectDue
  /\ UNCHANGED <<fetches, forwarderVars>>
  /\ assignedExercises' = [e \in Exercises |-> store[e].status]
  /\ effectPending' = TRUE
  /\ ev' = NoEvent
  /\ UNCHANGED <<connected, isRecording, store, progress, progressCount, sessionLoading,
                 activeAssignmentId, activeProgressId, tasks, now,
                 fetchTimers, recommendations>>

\* the reconciliation effect
RunEffect ==
  /\ effectPending
  /\ UNCHANGED <<fetches, forwarderVars>>
  /\ LET fires == ReconcileFires(activeAssignmentId, assignedExercises)
         slot == ReconcileSlot(activeAssignmentId, activeProgressId,
                               assignedExercises)
         calls == ReconcileCalls(activeAssignmentId, assignedExercises)
     IN /\ activeAssignmentId' = slot[1]
        /\ activeProgressId' = slot[2]
        /\ isRecording' = AfterCalls(isRecording, calls)
        /\ effectPending' = (slot[1] # activeAssignmentId)
        /\ ev' = Event("effect", IF fires THEN "forced_idle" ELSE "none", NULL,
                       calls)
  /\ UNCHANGED <<connected, store, progress, progressCount, assignedExercises,
                 sessionLoading, tasks, now, fetchTimers, recommendations>>

\* onSnapshot callback of the n8nResponses subscription
RecommendationsSnapshot(docs) ==
  /\ NoEffectDue
  /\ recommendations' = SnapshotRecs(docs)
  /\ ev' = NoEvent
  /\ UNCHANGED <<sessionVars, fetchTimers, fetches, forwarderVars>>

\* fetchNetworkRecommendation up to `await fetch(..)`: the request is issued
StartFetch ==
  /\ Len(fetches) < MaxFetches
  /\ fetches' = Append(fetches, "fetch")
  /\ ev' = NoEvent

\* the mount-time run and the 30 s interval callback of the fetcher
PollFetch ==
  /\ NoEffectDue
  /\ StartFetch
  /\ UNCHANGED <<sessionVars, fetchTimers, recommendations, forwarderVars>>

\* the delayed callback scheduled by a completed stop sequence
TimeoutFetch ==
  /\ NoEffectDue /\ fetchTimers > 0
  /\ fetchTimers' = fetchTimers - 1
  /\ StartFetch
  /\ UNCHANGED <<sessionVars, recommendations, forwarderVars>>

\* `await fetch(..)` resolves: a non-success response ends the run, a
\* success response has its body read (`await response.json()`)
FetchResponds(i, ok) ==
  /\ NoEffectDue
  /\ i \in DOMAIN fetches
  /\ fetches[i] = "fetch"
  /\ IF ok
     THEN /\ fetches' = [fetches EXCEPT ![i] = "json"]
          /\ ev' = NoEvent
          /\ UNCHANGED recommendations
     ELSE /\ fetches' = Remove(fetches, i)
          /\ Fetch([ok |-> FALSE, body |-> InvalidBody])
  /\ UNCHANGED <<sessionVars, fetchTimers, forwarderVars>>

\* `await fetch(..)` rejects: the catch block ends the run
FetchRejects(i) ==
  /\ NoEffectDue
  /\ i \in DOMAIN fetches
  /\ fetches[i] = "fetch"
  /\ fetches' = Remove(fetches, i)
  /\ ev' = FetchRejectedEvent
  /\ UNCHANGED <<sessionVars, fetchTimers, recommendations, forwarderVars>>

\* `await response.json()` returns: the parsed body, or a rejection when
\* the body is not valid JSON (body.json = "invalid")
JsonReturns(i, body) ==
  /\ NoEffectDue
  /\ i \in DOMAIN fetches
  /\ fetches[i] = "json"
  /\ fetches' = Remove(fetches, i)
  /\ Fetch([ok |-> TRUE, body |-> body])
  /\ UNCHANGED <<sessionVars, fetchTimers, forwarderVars>>

(***************************************************************************)
(* handleStartExercise                                                     *)
(***************************************************************************)

\* the call: guards, setSessionLoading(true), startRecording issued
StartRequest(e) ==
  /\ NoEffectDue
  /\ UNCHANGED <<fetches, forwarderVars>>
  /\ e \in DOMAIN assignedExercises
  /\ LET out == StartOutcome(connected, sessionLoading, activeAssignmentId)
     IN IF out = "accepted"
        THEN /\ HasFree
             /\ sessionLoading' = TRUE
             /\ tasks' = Append(tasks,
                  [kind |-> "start", pc |-> "startRecording", ex |-> e,
                   prev |-> assignedExercises[e], aid |-> NULL, pid |-> 0,
                   at |-> NoTime, err |-> NULL,
                   calls |-> <<Call("startRecording", ExerciseId[e], NULL,
                                    NoTime)>>])
             /\ ev' = Event("start", out, NULL,
                            <<Call("startRecording", ExerciseId[e], NULL,
                                   NoTime)>>)
        ELSE /\ ev' = Event("start", out, NULL, <<>>)
             /\ UNCHANGED <<sessionLoading, tasks>>
  /\ UNCHANGED <<connected, isRecording, store, progress, progressCount,
                 assignedExercises,
                 activeAssignmentId, activeProgressId, effectPending, now,
                 fetchTimers, recommendations>>

\* entering the catch block: stopRecording() and the revert write issued
EnterCatch(t, step) ==
  /\ isRecording' = AfterCalls(isRecording, CatchCalls(tasks[t].ex, tasks[t].prev))
  /\ tasks' = [tasks EXCEPT ![t].pc = "revert", ![t].err = step,
                 ![t].calls = @ \o CatchCalls(tasks[t].ex, tasks[t].prev)]
  /\ ev' = NoEvent

\* await startRecording(exercise.exerciseId) returns
StartRecordingReturns(t, ok) ==
  /\ NoEffectDue
  /\ UNCHANGED <<fetches, forwarderVars>>
  /\ t \in DOMAIN tasks
  /\ tasks[t].pc = "startRecording"
  /\ IF ok
     THEN /\ isRecording' = TRUE
          /\ tasks' = [tasks EXCEPT ![t].pc = "writeInProgress",
                 ![t].calls = Append(@, Call("updateAssignedExercise",
                                             tasks[t].ex, "in_progress", NoTime))]
          /\ ev' = NoEvent
     ELSE EnterCatch(t, "startRecording")
  /\ UNCHANGED <<connected, store, progress, progressCount, assignedExercises,
                 sessionLoading, activeAssignmentId, activeProgressId,
                 effectPending, now, fetchTimers, recommendations>>

\* await updateAssignedExercise(.., {status: "in_progress"}) returns
StatusWriteReturns(t, ok, tm) ==
  /\ NoEffectDue
  /\ UNCHANGED <<fetches, forwarderVars>>
  /\ t \in DOMAIN tasks
  /\ tasks[t].pc = "writeInProgress"
  /\ IF ok
     THEN /\ tm >= now
          /\ now' = tm
          /\ store' = WriteStatus(store, tasks[t].ex, "in_progress")
          /\ tasks' = [tasks EXCEPT ![t].pc = "createProgress", ![t].at = tm,
                 ![t].calls = Append(@, Call("createExerciseProgress",
                                             tasks[t].ex, NULL, tm))]
          /\ ev' = NoEvent
          /\ UNCHANGED isRecording
     ELSE /\ tm = now
          /\ EnterCatch(t, "updateAssignedExercise")
          /\ UNCHANGED <<store, now>>
  /\ UNCHANGED <<connected, progress, progressCount, assignedExercises, sessionLoading,
                 activeAssignmentId, activeProgressId, effectPending,
                 fetchTimers, recommendations>>

\* await createExerciseProgress(..) returns; on success the slot is set
\* (`max` caps the documents created in one behaviour)
CreateReturns(t, ok, max) ==
  /\ NoEffectDue
  /\ UNCHANGED <<fetches, forwarderVars>>
  /\ t \in DOMAIN tasks
  /\ tasks[t].pc = "createProgress"
  /\ ok => progressCount < max
  /\ IF ok
     THEN /\ progressCount' = progressCount + 1
          /\ progress' = [i \in DOMAIN progress \cup {progressCount + 1} |->
                           IF i = progressCount + 1
                           THEN NewProgress(tasks[t].ex, tasks[t].at)
                           ELSE progress[i]]
          /\ activeAssignmentId' = tasks[t].ex
          /\ activeProgressId' = progressCount + 1
          /\ effectPending' = (activeAssignmentId # tasks[t].ex)
          /\ sessionLoading' = StartFinally
          /\ tasks' = Remove(tasks, t)
          /\ ev' = Event("start_done", "started", NULL, tasks[t].calls)
          /\ UNCHANGED isRecording
     ELSE /\ EnterCatch(t, "createExerciseProgress")
          /\ UNCHANGED <<progress, progressCount, activeAssignmentId, activeProgressId,
                         effectPending, sessionLoading>>
  /\ UNCHANGED <<connected, store, assignedExercises, now, fetchTimers,
                 recommendations>>

\* the revert write in the catch block returns; its failure is swallowed
RevertReturns(t, ok) ==
  /\ NoEffectDue
  /\ UNCHANGED <<fetches, forwarderVars>>
  /\ t \in DOMAIN tasks
  /\ tasks[t].pc = "revert"
  /\ store' = IF ok THEN WriteStatus(store, tasks[t].ex, tasks[t].prev) ELSE store
  /\ sessionLoading' = StartFinally
  /\ tasks' = Remove(tasks, t)
  /\ ev' = Event("start_done", "failed", tasks[t].err, tasks[t].calls)
  /\ UNCHANGED <<connected, isRecording, progress, progressCount, assignedExercises,
                 activeAssignmentId, activeProgressId, effectPending, now,
                 fetchTimers, recommendations>>

(***************************************************************************)
(* handleCompleteExercise                                                  *)
(***************************************************************************)

\* the finally block
StopFinish(t, err) ==
  /\ activeAssignmentId' = CompleteFinally.aid
  /\ activeProgressId' = CompleteFinally.pid
  /\ sessionLoading' = CompleteFinally.loading
  /\ effectPending' = (activeAssignmentId # CompleteFinally.aid)
  /\ tasks' = Remove(tasks, t)
  /\ ev' = Event("stop_done", IF err = NULL THEN "completed" ELSE "failed",
                 err, tasks[t].calls)

\* the call: guard, setSessionLoading(true), stopRecording(), first write issued
StopRequest(tm) ==
  /\ NoEffectDue
  /\ UNCHANGED <<fetches, forwarderVars>>
  /\ LET out == StopOutcome(activeAssignmentId)
         calls == StopCalls(activeAssignmentId, tm)
     IN IF out = "accepted"
        THEN /\ HasFree
             /\ tm >= now
             /\ now' = tm
             /\ sessionLoading' = TRUE
             /\ isRecording' = AfterCalls(isRecording, calls)
             /\ tasks' = Append(tasks,
                  [kind |-> "stop", pc |-> "writeCompleted", ex |-> NULL,
                   prev |-> NULL, aid |-> activeAssignmentId,
                   pid |-> activeProgressId, at |-> tm, err |-> NULL,
                   calls |-> calls])
             /\ ev' = Event("stop", out, NULL, calls)
        ELSE /\ tm = now
             /\ ev' = Event("stop", out, NULL, <<>>)
             /\ UNCHANGED <<sessionLoading, isRecording, tasks, now>>
  /\ UNCHANGED <<connected, store, progress, progressCount, assignedExercises,
                 activeAssignmentId, activeProgressId, effectPending,
                 fetchTimers, recommendations>>

\* await updateAssignedExercise(.., {status: "completed", completedAt}) returns
\* (`max` caps the delayed runs scheduled and not yet started)
AssignmentWriteReturns(t, ok, max) ==
  /\ NoEffectDue
  /\ UNCHANGED <<fetches, forwarderVars>>
  /\ t \in DOMAIN tasks
  /\ tasks[t].pc = "writeCompleted"
  /\ (ok /\ tasks[t].pid = 0) => fetchTimers < max
  /\ IF ok
     THEN /\ store' = WriteCompleted(store, tasks[t].aid, tasks[t].at)
          /\ IF tasks[t].pid # 0
             THEN /\ tasks' = [tasks EXCEPT ![t].pc = "writeProgress",
                        ![t].calls = Append(@, Call("updateExerciseProgress",
                                                    tasks[t].pid, "completed",
                                                    tasks[t].at))]
                  /\ ev' = NoEvent
                  /\ UNCHANGED <<activeAssignmentId, activeProgressId,
                                 sessionLoading, effectPending, fetchTimers>>
             ELSE /\ fetchTimers' = fetchTimers + 1
                  /\ StopFinish(t, NULL)
     ELSE /\ StopFinish(t, "updateAssignedExercise")
          /\ UNCHANGED <<store, fetchTimers>>
  /\ UNCHANGED <<connected, isRecording, progress, progressCount, assignedExercises, now,
                 recommendations>>

\* await updateExerciseProgress(..) returns
\* (`max` caps the delayed runs scheduled and not yet started)
ProgressWriteReturns(t, ok, max) ==
  /\ NoEffectDue
  /\ UNCHANGED <<fetches, forwarderVars>>
  /\ t \in DOMAIN tasks
  /\ tasks[t].pc = "writeProgress"
  /\ ok => fetchTimers < max
  /\ IF ok
     THEN /\ progress' = WriteProgress(progress, tasks[t].pid, tasks[t].at)
          /\ fetchTimers' = fetchTimers + 1
          /\ StopFinish(t, NULL)
     ELSE /\ StopFinish(t, "updateExerciseProgress")
          /\ UNCHANGED <<progress, fetchTimers>>
  /\ UNCHANGED <<connected, isRecording, store, progressCount, assignedExercises, now,
                 recommendations>>

(***************************************************************************)
(* Server: the webhook forwarder POST /api/n8n/patient-query               *)
(***************************************************************************)

\* request bodies submitted to the forwarder
Requests == {"p1", "p2"}

\* HTTP statuses and body texts the upstream can answer with
Statuses == {200, 201, 404, 500, 503}

Texts == {"", "Internal Server Error", "null", "{\"recommendations\":[]}",
          "{\"recommendedExercise\":\"squat\"}", "{\"recommendations\":["}

\* messages of the errors a failed outbound request is rejected with
FailureMessages == {"ECONNREFUSED", "getaddrinfo ENOTFOUND"}

\* response.ok of the outbound request's response
ResponseOk(status) == status >= 200 /\ status =< 299

\* the response of the outbound request once its body text has been read
Upstream(status, text) ==
  [status |-> status, ok |-> ResponseOk(status), text |-> text]

\* an invocation of the route handler: suspended at `await fetch` (pc
\* "fetch") or, holding the response, at `await response.text()` (pc "text")
Forward(req, pc, status) == [req |-> req, pc |-> pc, status |-> status]

\* JSON.parse accepts the text
JSONValid(text) ==
  text \in {"null", "{\"recommendations\":[]}",
            "{\"recommendedExercise\":\"squat\"}"}

\* the value JSON.parse yields for a text it accepts
JSONParse(text) ==
  CASE text = "null" -> [json |-> "null"]
    [] text = "{\"recommendations\":[]}" ->
         [json |-> "object", recommendations |-> <<>>]
    [] text = "{\"recommendedExercise\":\"squat\"}" ->
         [json |-> "object", recommendedExercise |-> "squat"]

\* variant of the tolerant parse that never parses
safeParseJSONAlwaysRaw(text) == [raw |-> text]

\* safeParseJSON: the parsed text, or {raw: text} when JSON.parse throws
safeParseJSON(text) ==
  IF JSONValid(text) THEN JSONParse(text) ELSE [raw |-> text]

\* the status the catch block responds with
FailureStatus == 500

\* res.status(response.status).json({status, ok, data})
ForwardReply(up) ==
  [status |-> up.status,
   body |-> [status |-> up.status, ok |-> up.ok, data |-> safeParseJSON(up.text)]]

\* catch: res.status(500).json({error, details})
FailureReply(msg) ==
  [status |-> FailureStatus,
   body |-> [error |-> "Failed to reach n8n webhook", details |-> msg]]

\* what the forwarder did in the last step
ForwardEvent(result, up, msg) ==
  [kind |-> "forward", result |-> result, err |-> msg, calls |-> <<>>,
   upstream |-> up]

\* a request arrives: the outbound fetch is issued with the same body
ForwardRequest(req) ==
  /\ Len(pending) < MaxForwards
  /\ pending' = Append(pending, Forward(req, "fetch", 0))
  /\ ev' = NoEvent
  /\ UNCHANGED <<reply, clientVars>>

\* the outbound fetch resolves with the response's status line;
\* safeParseJSON starts reading the body text
UpstreamResponds(i, status) ==
  /\ i \in DOMAIN pending
  /\ pending[i].pc = "fetch"
  /\ pending' = [pending EXCEPT ![i].pc = "text", ![i].status = status]
  /\ ev' = NoEvent
  /\ UNCHANGED <<reply, clientVars>>

\* response.text() resolves: the text is parsed and the reply sent
TextArrives(i, text) ==
  /\ i \in DOMAIN pending
  /\ pending[i].pc = "text"
  /\ pending' = Remove(pending, i)
  /\ reply' = ForwardReply(Upstream(pending[i].status, text))
  /\ ev' = ForwardEvent("responded", Upstream(pending[i].status, text), NULL)
  /\ UNCHANGED clientVars

\* the outbound fetch rejects; the catch block sends the reply
UpstreamFails(i, msg) ==
  /\ i \in DOMAIN pending
  /\ pending[i].pc = "fetch"
  /\ pending' = Remove(pending, i)
  /\ reply' = FailureReply(msg)
  /\ ev' = ForwardEvent("failed", Upstream(0, ""), msg)
  /\ UNCHANGED clientVars

\* response.text() rejects outside safeParseJSON's try; the route's catch
\* block sends the reply
TextFails(i, msg) ==
  /\ i \in DOMAIN pending
  /\ pending[i].pc = "text"
  /\ pending' = Remove(pending, i)
  /\ reply' = FailureReply(msg)
  /\ ev' = ForwardEvent("failed", Upstream(pending[i].status, ""), msg)
  /\ UNCHANGED clientVars

(***************************************************************************)
(* Specification                                                           *)
(***************************************************************************)

\* The session lifecycle: the handlers, the effect, the assignment
\* subscription, the device and the backend process.  No step of the
\* fetcher reads or writes a variable of sessionVars, and no step below
\* reads recommendations or fetches.
NextSession ==
  \/ Connect
  \/ Disconnect
  \/ PanelStartRecording
  \/ PanelStopRecording
  \/ \E e \in Exercises : ExternalComplete(e)
  \/ Snapshot
  \/ RunEffect
  \/ \E e \in Exercises : StartRequest(e)
  \/ \E t \in TaskIds, ok \in BOOLEAN : StartRecordingReturns(t, ok)
  \/ \E t \in TaskIds, ok \in BOOLEAN, tm \in Times : StatusWriteReturns(t, ok, tm)
  \/ \E t \in TaskIds, ok \in BOOLEAN : CreateReturns(t, ok, MaxSessions)
  \/ \E t \in TaskIds, ok \in BOOLEAN : RevertReturns(t, ok)
  \/ \E tm \in Times : StopRequest(tm)
  \/ \E t \in TaskIds, ok \in BOOLEAN : AssignmentWriteReturns(t, ok, MaxCompletions)
  \/ \E t \in TaskIds, ok \in BOOLEAN : ProgressWriteReturns(t, ok, MaxCompletions)

\* The session lifecycle with every environment step, explored up to
\* MaxSessions started sessions and MaxCompletions completed ones.
SpecSession == Init /\ [][NextSession]_vars

\* Requests and the returns of their device and store calls, with the
\* device connected and no backend process, explored up to MaxProgress
\* started sessions and MaxTimers completed ones.
NextOverlap ==
  \/ Connect
  \/ Snapshot
  \/ RunEffect
  \/ \E e \in Exercises : StartRequest(e)
  \/ \E t \in TaskIds, ok \in BOOLEAN : StartRecordingReturns(t, ok)
  \/ \E t \in TaskIds, ok \in BOOLEAN, tm \in Times : StatusWriteReturns(t, ok, tm)
  \/ \E t \in TaskIds, ok \in BOOLEAN : CreateReturns(t, ok, MaxProgress)
  \/ \E t \in TaskIds, ok \in BOOLEAN : RevertReturns(t, ok)
  \/ \E tm \in Times : StopRequest(tm)
  \/ \E t \in TaskIds, ok \in BOOLEAN : AssignmentWriteReturns(t, ok, MaxTimers)
  \/ \E t \in TaskIds, ok \in BOOLEAN : ProgressWriteReturns(t, ok, MaxTimers)

SpecOverlap == Init /\ [][NextOverlap]_vars

\* The fetcher: the recurring runs, each with any upstream response, and
\* the n8nResponses subscription.
NextFetch ==
  \/ PollFetch
  \/ \E i \in 1..MaxFetches, ok \in BOOLEAN : FetchResponds(i, ok)
  \/ \E i \in 1..MaxFetches : FetchRejects(i)
  \/ \E i \in 1..MaxFetches, b \in Bodies : JsonReturns(i, b)
  \/ \E docs \in Batches : RecommendationsSnapshot(docs)

SpecFetch == Init /\ [][NextFetch]_vars

\* The forwarder specification: requests to the route and what the
\* upstream does with each.
NextForward ==
  \/ \E req \in Requests : ForwardRequest(req)
  \/ \E i \in 1..MaxForwards, s \in Statuses : UpstreamResponds(i, s)
  \/ \E i \in 1..MaxForwards, t \in Texts : TextArrives(i, t)
  \/ \E i \in 1..MaxForwards, msg \in FailureMessages : UpstreamFails(i, msg)
  \/ \E i \in 1..MaxForwards, msg \in FailureMessages : TextFails(i, msg)

SpecForward == Init /\ [][NextForward]_vars

\* A session through to the delayed run that its completion schedules:
\* requests, the returns of their calls (every call of a start sequence
\* succeeding, the writes of a stop sequence succeeding or failing), the
\* timer and the responses to the run it starts, explored up to
\* MaxCompletions started sessions.
NextCompletion ==
  \/ Connect
  \/ Snapshot
  \/ RunEffect
  \/ \E e \in Exercises : StartRequest(e)
  \/ \E t \in TaskIds : StartRecordingReturns(t, TRUE)
  \/ \E t \in TaskIds, tm \in Times : StatusWriteReturns(t, TRUE, tm)
  \/ \E t \in TaskIds : CreateReturns(t, TRUE, MaxCompletions)
  \/ \E tm \in Times : StopRequest(tm)
  \/ \E t \in TaskIds, ok \in BOOLEAN : AssignmentWriteReturns(t, ok, MaxCompletions)
  \/ \E t \in TaskIds, ok \in BOOLEAN : ProgressWriteReturns(t, ok, MaxCompletions)
  \/ TimeoutFetch
  \/ \E i \in 1..MaxFetches, ok \in BOOLEAN : FetchResponds(i, ok)
  \/ \E i \in 1..MaxFetches : FetchRejects(i)
  \/ \E i \in 1..MaxFetches, b \in Bodies : JsonReturns(i, b)

SpecCompletion == Init /\ [][NextCompletion]_vars

\* The whole program: the dashboard (session lifecycle, fetcher, and the
\* delayed run that a completed stop sequence schedules) and the server.
Next ==
  \/ NextSession
  \/ NextOverlap
  \/ NextCompletion
  \/ NextFetch
  \/ NextForward

Spec == Init /\ [][Next]_vars

TypeOK ==
  /\ connected \in BOOLEAN
  /\ isRecording \in BOOLEAN
  /\ sessionLoading \in BOOLEAN
  /\ effectPending \in BOOLEAN
  /\ activeAssignmentId \in Exercises \cup {NULL}
  /\ activeProgressId \in 0..MaxProgress
  /\ progressCount \in 0..MaxProgress
  /\ DOMAIN progress \subseteq 1..progressCount
  /\ Len(tasks) <= MaxTasks
  /\ now \in Times
  /\ fetchTimers \in 0..MaxTimers
  /\ Len(recommendations) <= MaxDocs * MaxRecs
  /\ Len(fetches) <= MaxFetches
  /\ \A i \in DOMAIN fetches : fetches[i] \in {"fetch", "json"}
  /\ Len(pending) <= MaxForwards

(***************************************************************************)
(* Properties of the session lifecycle                                     *)
(***************************************************************************)

StoreWrites == {"updateAssignedExercise", "createExerciseProgress",
                "updateExerciseProgress"}

StopCall == Call("stopRecording", NULL, NULL, NoTime)

StartDone == ev'.kind = "start_done"

StartSucceeded == ev'.kind = "start_done" /\ ev'.result = "started"

StartFailed == ev'.kind = "start_done" /\ ev'.result = "failed"

StopDone == ev'.kind = "stop_done"

SessionUnchanged ==
  UNCHANGED <<connected, isRecording, store, progress, progressCount,
              assignedExercises, sessionLoading, activeAssignmentId,
              activeProgressId, tasks, fetchTimers, recommendations>>

\* C1: the two halves of the slot are set and cleared together, and a start
\* sequence that succeeds populates the slot only when it was empty.
C1_SlotNeverOverwritten ==
  [][ /\ (activeAssignmentId' = NULL) <=> (activeProgressId' = 0)
      /\ StartSucceeded => (activeAssignmentId = NULL /\ activeProgressId = 0)
    ]_vars

\* C2: a start request is accepted only when the device is connected and the
\* slot is empty; when the device is disconnected or the slot is occupied the
\* request is rejected, issues no call and changes nothing.
C2_StartGuard ==
  [][ ev'.kind = "start" =>
        /\ ev'.result = "accepted" =>
             (connected /\ activeAssignmentId = NULL /\ activeProgressId = 0)
        /\ (~connected \/ activeAssignmentId # NULL) =>
             /\ ev'.result # "accepted"
             /\ ev'.calls = <<>>
             /\ SessionUnchanged
    ]_vars

\* a start request was just rejected, the device connected, no sequence in
\* flight, because the slot holds a session
C2_Witness ==
  /\ ev.kind = "start"
  /\ ev.result = "session_busy"
  /\ connected
  /\ ~sessionLoading
  /\ activeAssignmentId # NULL

\* C3: at most one start sequence is in flight, and a start request that
\* arrives while the busy flag is set or the slot is occupied is rejected,
\* starts no sequence and issues no call.
C3_OneStartInFlight ==
  [][ /\ Cardinality(StartsInFlight') <= 1
      /\ (ev'.kind = "start" /\ (sessionLoading \/ activeAssignmentId # NULL)) =>
           (ev'.result # "accepted" /\ ev'.calls = <<>> /\ tasks' = tasks)
    ]_vars

\* C4: when a stop sequence finishes, whatever its writes did, the slot is
\* (null, null) and the busy flag is false, so that a start request handled
\* next with the device connected is accepted.
C4_StopAlwaysReleases ==
  [][ /\ StopDone =>
           /\ activeAssignmentId' = NULL
           /\ activeProgressId' = 0
           /\ ~sessionLoading'
           /\ StartOutcome(TRUE, sessionLoading', activeAssignmentId') = "accepted"
      /\ (ev.kind = "stop_done" /\ ev'.kind = "start" /\ connected) =>
           ev'.result = "accepted"
    ]_vars

\* a stop sequence has just finished with its progress write rejected
C4_Witness ==
  /\ ev.kind = "stop_done"
  /\ ev.result = "failed"
  /\ ev.err = "updateExerciseProgress"
  /\ activeAssignmentId = NULL

\* C5: when the slot holds a session and the subscription reports that
\* assignment completed, the effect stops the device, clears both halves of
\* the slot and issues no store write.
C5_ForcedIdle ==
  [][ ( /\ effectPending
        /\ activeAssignmentId # NULL
        /\ activeAssignmentId \in DOMAIN assignedExercises
        /\ assignedExercises[activeAssignmentId] = "completed" ) =>
        /\ ev'.kind = "effect"
        /\ ev'.result = "forced_idle"
        /\ ev'.calls = <<StopCall>>
        /\ activeAssignmentId' = NULL
        /\ activeProgressId' = 0
        /\ UNCHANGED <<store, progress, progressCount, tasks, sessionLoading>>
    ]_vars

\* the effect has just forced the session idle after a completion that no
\* local stop sequence wrote
C5_Witness ==
  /\ ev.kind = "effect"
  /\ ev.result = "forced_idle"
  /\ tasks = <<>>
  /\ \E e \in Exercises :
       store[e].status = "completed" /\ store[e].completedAt = NoTime

\* C6: a run of the effect with the slot empty changes no session state and
\* issues no call, whatever the subscription reported.
C6_EffectIdempotent ==
  [][ (effectPending /\ activeAssignmentId = NULL) =>
        /\ ev'.kind = "effect"
        /\ ev'.calls = <<>>
        /\ SessionUnchanged
    ]_vars

\* the effect has just run with the slot empty on a completed notification
\* while the local stop sequence was still in flight
C6_Witness ==
  /\ ev.kind = "effect"
  /\ ev.result = "none"
  /\ activeAssignmentId = NULL
  /\ StopsInFlight # {}
  /\ \E e \in DOMAIN assignedExercises : assignedExercises[e] = "completed"

\* C7: a start sequence whose startRecording failed issues no store write
\* and ends with the slot empty and the busy flag false.
C7_NoWriteAfterRecordingFailure ==
  [][ (StartDone /\ ev'.err = "startRecording") =>
        /\ \A i \in DOMAIN ev'.calls : ev'.calls[i].fn \notin StoreWrites
        /\ activeAssignmentId' = NULL
        /\ ~sessionLoading'
    ]_vars

\* C8: a start sequence whose status write or progress creation failed has
\* stopped the device and issued exactly one revert write, of the status the
\* assignment had before the start; whether or not that write succeeds the
\* sequence reports the original error and ends with the slot empty and the
\* busy flag false.
C8_RevertOnFailure ==
  [][ (StartDone /\ ev'.err \in {"updateAssignedExercise",
                                 "createExerciseProgress"}) =>
        LET calls == ev'.calls
            n == Len(calls)
        IN /\ ev'.result = "failed"
           /\ n >= 4
           /\ calls[n - 1] = StopCall
           /\ calls[n].fn = "updateAssignedExercise"
           /\ \E t \in DOMAIN tasks :
                /\ tasks[t].pc = "revert"
                /\ tasks[t].calls = calls
                /\ calls[n].id = tasks[t].ex
                /\ calls[n].status = tasks[t].prev
           /\ \A i \in 1..(n - 2) :
                calls[i].fn = "updateAssignedExercise" =>
                  (i = 2 /\ calls[i].status = "in_progress")
           /\ activeAssignmentId' = NULL
           /\ activeProgressId' = 0
           /\ ~sessionLoading'
    ]_vars

\* C9: a start sequence leaves the slot populated exactly when its three
\* steps succeeded; then the assignment's status is in_progress (or was
\* completed since by the clinician's side) and the progress record of the
\* slot references it with the start time; while a start sequence is in
\* flight and after one failed the slot is (null, null).
C9_SlotIffAllSucceeded ==
  [][ /\ StartSucceeded =>
           LET calls == ev'.calls
           IN /\ activeAssignmentId' = calls[2].id
              /\ activeProgressId' \in DOMAIN progress'
              /\ progress'[activeProgressId'].assignedExerciseId = activeAssignmentId'
              /\ progress'[activeProgressId'].sessionStartTime = calls[Len(calls)].at
              /\ store'[activeAssignmentId'].status \in {"in_progress", "completed"}
      /\ StartFailed => (activeAssignmentId' = NULL /\ activeProgressId' = 0)
      /\ StartsInFlight' # {} => (activeAssignmentId' = NULL /\ activeProgressId' = 0)
    ]_vars

\* C10: a stop sequence has, when it finishes, stopped the device, issued the
\* assignment write and issued the progress write, whatever each returned.
C10_StopRunsAllSteps ==
  [][ StopDone =>
        LET calls == ev'.calls
        IN /\ Len(calls) = 3
           /\ calls[1] = StopCall
           /\ calls[2].fn = "updateAssignedExercise"
           /\ calls[2].status = "completed"
           /\ calls[3].fn = "updateExerciseProgress"
           /\ calls[3].status = "completed"
           /\ calls[3].at = calls[2].at
    ]_vars

\* C11: every stop sequence that finishes, whatever its store writes
\* returned, has scheduled exactly one delayed run of the fetcher.
C11_StopSchedulesFetch ==
  [][ StopDone => fetchTimers' = fetchTimers + 1 ]_vars

\* C12: round trip of one session.  While the slot holds an assignment its
\* status changes only from in_progress to completed, and a stop sequence
\* whose two writes succeeded leaves the assignment completed and the
\* session's progress record with status completed, sessionEndTime =
\* completedAt = the assignment's completedAt, and completedAt >=
\* sessionStartTime.
C12_RoundTrip ==
  [][ /\ \A e \in Exercises :
           (activeAssignmentId = e /\ store'[e].status # store[e].status) =>
             (store[e].status = "in_progress" /\ store'[e].status = "completed")
      /\ (StopDone /\ ev'.result = "completed") =>
           LET aid == ev'.calls[2].id
               p == progress'[ev'.calls[3].id]
           IN /\ store'[aid].status = "completed"
              /\ p.assignedExerciseId = aid
              /\ p.status = "completed"
              /\ p.sessionEndTime = p.completedAt
              /\ p.completedAt = store'[aid].completedAt
              /\ p.completedAt >= p.sessionStartTime
    ]_vars

(***************************************************************************)
(* Properties of the recommendation fetcher                                *)
(***************************************************************************)

\* a run that received a response has just ended
FetchRan == ev'.kind = "fetch" /\ ev'.result # "rejected"

\* C13: a run of the fetcher that receives a non-success response, or a
\* success response whose body is not valid JSON, leaves the recommendation
\* list as it was and lets no error out, and the recurring run can fire
\* again afterwards.
C13_FailedFetchHarmless ==
  [][ (FetchRan /\ (~ev'.resp.ok \/ ev'.resp.body.json = "invalid")) =>
        /\ recommendations' = recommendations
        /\ ev'.err = NULL
        /\ (ENABLED PollFetch)'
    ]_vars

\* a run has just failed on an unparsable body with a list already loaded
C13_Witness ==
  /\ ev.kind = "fetch"
  /\ ev.result = "threw"
  /\ ev.resp.ok
  /\ ev.resp.body.json = "invalid"
  /\ Len(recommendations) = MaxRecs

\* C14: on a success response with a parsed body, the list becomes the
\* body's `recommendations` array when it has one (also when it is empty),
\* else the one-element list holding the body when the body is a single
\* recommendation (it names a recommendedExercise), else it is unchanged.
C14_FetchResultByShape ==
  [][ (FetchRan /\ ev'.resp.ok /\ ev'.resp.body.json # "invalid") =>
        LET b == ev'.resp.body
        IN recommendations' =
             IF b.json = "object" /\ b.recsField = "array" THEN b.items
             ELSE IF b.json = "object" /\ b.recEx \in RecNames THEN <<b>>
             ELSE recommendations
    ]_vars

\* a run has just taken the empty array of a body that also names a
\* recommendedExercise
C14_Witness ==
  /\ ev.kind = "fetch"
  /\ ev.result = "replaced"
  /\ ev.resp.body.items = <<>>
  /\ ev.resp.body.recEx \in RecNames
  /\ recommendations = <<>>

(***************************************************************************)
(* Properties of the webhook forwarder                                     *)
(***************************************************************************)

\* C15: for every upstream response the forwarder replies with the
\* upstream's HTTP status and the body {status, ok, data}: status and ok are
\* the upstream's, data is the parsed body when the text is valid JSON and
\* {raw: text} otherwise.
C15_ForwarderMirrorsUpstream ==
  [][ (ev'.kind = "forward" /\ ev'.result = "responded") =>
        LET up == ev'.upstream
        IN /\ reply'.status = up.status
           /\ DOMAIN reply'.body = {"status", "ok", "data"}
           /\ reply'.body.status = up.status
           /\ reply'.body.ok = up.ok
           /\ reply'.body.data = IF JSONValid(up.text) THEN JSONParse(up.text)
                                 ELSE [raw |-> up.text]
    ]_vars

\* the upstream answered 500 with the text "Internal Server Error"
C15_Witness ==
  /\ ev.kind = "forward"
  /\ ev.result = "responded"
  /\ reply = [status |-> 500,
              body |-> [status |-> 500, ok |-> FALSE,
                        data |-> [raw |-> "Internal Server Error"]]]

\* C16: when the outbound request fails at the network level the forwarder
\* replies with status 502 and the payload {error, details}.
C16_NetworkFailureIs502 ==
  [][ (ev'.kind = "forward" /\ ev'.result = "failed") =>
        /\ reply'.status = 502
        /\ DOMAIN reply'.body = {"error", "details"}
        /\ reply'.body.details = ev'.err
    ]_vars

(***************************************************************************)
(* Further properties of the session lifecycle                             *)
(***************************************************************************)

\* C17: a stop request handled while the slot is empty is a no-op: it
\* issues no call, schedules no fetch and changes no session state.
C17_StopWhileIdleNoOp ==
  [][ (ev'.kind = "stop" /\ activeAssignmentId = NULL) =>
        /\ ev'.result = "noop"
        /\ ev'.calls = <<>>
        /\ SessionUnchanged
    ]_vars

\* a stop request was just handled with the coordinator idle
C17_Witness ==
  /\ ev.kind = "stop"
  /\ ev.result = "noop"
  /\ activeAssignmentId = NULL
  /\ ~sessionLoading
  /\ tasks = <<>>

Names(calls) == [i \in DOMAIN calls |-> calls[i].fn]

StartOrder == <<"startRecording", "updateAssignedExercise", "createExerciseProgress">>

StopOrder == <<"stopRecording", "updateAssignedExercise", "updateExerciseProgress">>

CatchOrder == <<"stopRecording", "updateAssignedExercise">>

\* the calls of a sequence follow its order: the first k steps, then (for a
\* start sequence that failed) the two calls of the catch block
InOrder(kind, calls) ==
  IF kind = "stop"
  THEN \E k \in 2..3 : Names(calls) = SubSeq(StopOrder, 1, k)
  ELSE \E k \in 1..3 :
         \/ Names(calls) = SubSeq(StartOrder, 1, k)
         \/ Names(calls) = SubSeq(StartOrder, 1, k) \o CatchOrder

\* the number of steps a sequence at this position has issued
Issued(pc) ==
  CASE pc = "startRecording" -> 1
    [] pc = "writeInProgress" -> 2
    [] pc = "createProgress" -> 3
    [] pc = "writeCompleted" -> 2
    [] pc = "writeProgress" -> 3
    [] OTHER -> 0

\* C18: every start sequence issues startRecording, then the in_progress
\* write, then the progress creation, each only once the previous one has
\* returned successfully; every stop sequence issues stopRecording, then the
\* assignment write, then the progress write; the device call comes first.
C18_StepOrder ==
  /\ \A t \in DOMAIN tasks :
       /\ InOrder(tasks[t].kind, tasks[t].calls)
       /\ tasks[t].calls[1].fn \in {"startRecording", "stopRecording"}
       /\ tasks[t].pc # "revert" => Len(tasks[t].calls) = Issued(tasks[t].pc)
  /\ ev.kind = "start_done" =>
       /\ InOrder("start", ev.calls)
       /\ ev.result = "started" <=> Names(ev.calls) = StartOrder
  /\ ev.kind = "stop_done" =>
       /\ InOrder("stop", ev.calls)
       /\ ev.result = "completed" => Names(ev.calls) = StopOrder

\* a stop sequence is awaiting its progress write while a start sequence is
\* awaiting its progress creation
C18_Witness ==
  /\ \E t \in DOMAIN tasks : tasks[t].kind = "stop" /\ tasks[t].pc = "writeProgress"
  /\ \E t \in DOMAIN tasks : tasks[t].kind = "start" /\ tasks[t].pc = "createProgress"

\* C19: once an assignment's status in the store is completed, no step
\* changes it to anything else.
C19_CompletedIsFinal ==
  [][ \A e \in Exercises :
        store[e].status = "completed" => store'[e].status = "completed"
    ]_vars

\* C20: a progress record is created exactly when a start sequence
\* succeeds, is written by updateExerciseProgress at most once, and has been
\* written exactly once when its session is over (neither the slot nor a
\* stop sequence in flight refers to it any more).
C20_ProgressWrittenOnce ==
  [][ /\ progressCount' = progressCount + (IF StartSucceeded THEN 1 ELSE 0)
      /\ \A i \in DOMAIN progress' : progress'[i].updates <= 1
      /\ \A i \in DOMAIN progress :
           (Referenced(i) /\ ~Referenced(i)') => progress'[i].updates = 1
    ]_vars

\* C20, the overlap case alone: no progress record is written twice.
C20_NeverWrittenTwice ==
  \A i \in DOMAIN progress : progress[i].updates <= 1

\* C20, the forced-idle case alone: the effect never ends a session whose
\* progress record is unwritten and that no stop sequence will write.
C20_ForcedIdleWritesProgress ==
  [][ (ev'.kind = "effect" /\ ev'.result = "forced_idle" /\ StopsInFlight = {}) =>
        progress'[activeProgressId].updates = 1
    ]_vars

(***************************************************************************)
(* Consistent end states                                                   *)
(***************************************************************************)

Idle == activeAssignmentId = NULL /\ activeProgressId = 0 /\ ~isRecording

Active == activeAssignmentId # NULL /\ activeProgressId # 0 /\ isRecording

\* C21, end state: whenever a start or stop sequence ends, whichever of its
\* steps failed, the busy flag is false and the coordinator is Idle (slot
\* empty, device not recording) or Active (slot populated, device recording).
C21_EndsIdleOrActive ==
  [][ (StartDone \/ StopDone) => (~sessionLoading' /\ (Idle' \/ Active')) ]_vars

(***************************************************************************)
(* No stale completed session                                              *)
(***************************************************************************)

\* the slot holds an assignment that the latest snapshot reports completed
SlotCompleted == ReconcileFires(activeAssignmentId, assignedExercises)

\* C22: the slot never keeps holding an assignment that the latest snapshot
\* reports completed.  Every step that populates the slot or delivers a new
\* snapshot leaves the reconciliation effect due, and in every state where no
\* effect is due a populated slot's assignment, if the snapshot has a record
\* for it, is not completed there.
C22_NoStaleCompletedSlot ==
  /\ [](~effectPending => ~SlotCompleted)
  /\ [][ ( \/ activeAssignmentId' \notin {NULL, activeAssignmentId}
           \/ assignedExercises' # assignedExercises ) => effectPending' ]_vars

\* a start sequence has just populated the slot with an assignment that a
\* backend process completed, and the snapshot reported completed, while the
\* sequence was still in flight; the effect is due
C22_Witness ==
  /\ ev.kind = "start_done"
  /\ ev.result = "started"
  /\ effectPending
  /\ SlotCompleted
  /\ store[activeAssignmentId].status = "completed"
  /\ store[activeAssignmentId].completedAt = NoTime
====
